---- MODULE Spec2Model ----
(***************************************************************************)
(* Rewards & redemption ledger of the credit-card rewards service.         *)
(*                                                                         *)
(* The state is the `rewards` and `payments` tables, the                   *)
(* `redemption_cancellation` table, the clock read by datetime.utcnow(),   *)
(* and, per request-serving thread, the unit of work its ORM session has   *)
(* built from what it read and has not committed yet.  Every handler is an *)
(* operator from its inputs and the rows it reads to its outcome: the      *)
(* response, and the UPDATEs and INSERTs it commits.  An UPDATE sets only  *)
(* the columns whose value differs from what was loaded, WHERE id = <row>. *)
(*                                                                         *)
(* Spec serves one request at a time (read, compute and commit in one      *)
(* step).  SpecConc serves requests on several threads: a handler that     *)
(* commits reads and computes in one step and commits in a later one, and  *)
(* other threads run in between.                                           *)
(*                                                                         *)
(* The number of requests served in a run is bounded (MaxRequests,         *)
(* MaxRequestsConc), and so are the rows of each table and the clock.      *)
(*                                                                         *)
(* Amounts are whole dollars whose quotients terminate in decimal, so the  *)
(* Decimal arithmetic of refund_payment is exact.  The credit line of the  *)
(* card is outside the ledger and is not part of the state.                *)
(***************************************************************************)
EXTENDS Integers, Sequences, FiniteSets, TLC

\* ---------------------------------------------------------------- bounds
MaxLots == 3
MaxPayments == 2
MaxNow == 1
MaxCancellations == 2
MaxRequests == 3
MaxRequestsConc == 3

\* ------------------------------------------------------ program constants
PaymentExpiryDays == 365
ManualExpiryDays == 730
CancellationFeePercent == 5

\* ------------------------------------------------------------ input sets
Customers == {1, 2}
Threads == {1, 2}
PointsInputs == {0, 2, 20}
RedeemInputs == {0, 1, 2, 3}
AmountInputs == {0, 2}
RefundInputs == {0, 1, 2}
ExpiryInputs == {0}
ProductInputs == {"SILVER"}

None == -1
NoPayment == 0

Min(a, b) == IF a < b THEN a ELSE b

VARIABLES rewards, payments, cancellations, now, pending, requests, last

vars == <<rewards, payments, cancellations, now, pending, requests, last>>

Idle == [op |-> "idle"]

RewardIds == DOMAIN rewards
PaymentIds == DOMAIN payments

\* A row of the rewards table.
Reward(c, p, pe, exp) ==
  [customer_id |-> c, payment_id |-> p, points_earned |-> pe,
   points_redeemed |-> 0, status |-> "EARNED", earned_date |-> now,
   redeemed_date |-> None, expiry_date |-> exp]

\* A row of the payments table.
Payment(amount) ==
  [amount |-> amount, status |-> "COMPLETED"]

\* The response of the last handler that returned.
Response(op, ok, err) ==
  [op |-> op, ok |-> ok, err |-> err]

Init ==
  /\ rewards = <<>>
  /\ payments = <<>>
  /\ cancellations = <<>>
  /\ now = 0
  /\ pending = [t \in Threads |-> Idle]
  /\ requests = 0
  /\ last = Response("init", TRUE, "")

\* ------------------------------------------------------- ORM unit of work
\* The UPDATEs a session flushes for the rewards it changed in memory:
\* one entry per row and column whose value differs from the loaded one.
Flush(new) ==
  [pe |-> {<<i, new[i].points_earned>> : i \in
             {j \in RewardIds : new[j].points_earned # rewards[j].points_earned}},
   pr |-> {<<i, new[i].points_redeemed>> : i \in
             {j \in RewardIds : new[j].points_redeemed # rewards[j].points_redeemed}},
   st |-> {<<i, new[i].status>> : i \in
             {j \in RewardIds : new[j].status # rewards[j].status}},
   rd |-> {<<i, new[i].redeemed_date>> : i \in
             {j \in RewardIds : new[j].redeemed_date # rewards[j].redeemed_date}}]

Written(W, i) == {w[2] : w \in {x \in W : x[1] = i}}

\* The rewards table after the UPDATEs of a unit of work are applied.
ApplyWrites(W) ==
  [i \in RewardIds |->
     [rewards[i] EXCEPT
        !.points_earned = IF Written(W.pe, i) # {}
                          THEN CHOOSE v \in Written(W.pe, i) : TRUE ELSE @,
        !.points_redeemed = IF Written(W.pr, i) # {}
                            THEN CHOOSE v \in Written(W.pr, i) : TRUE ELSE @,
        !.status = IF Written(W.st, i) # {}
                   THEN CHOOSE v \in Written(W.st, i) : TRUE ELSE @,
        !.redeemed_date = IF Written(W.rd, i) # {}
                          THEN CHOOSE v \in Written(W.rd, i) : TRUE ELSE @]]

ApplyPaymentWrites(W) ==
  [i \in PaymentIds |->
     [payments[i] EXCEPT
        !.status = IF Written(W, i) # {}
                   THEN CHOOSE v \in Written(W, i) : TRUE ELSE @]]

NoWrites == [pe |-> {}, pr |-> {}, st |-> {}, rd |-> {}]

\* The outcome of a handler: its response and the unit of work it commits
\* (commits is FALSE when the handler returns without db.session.commit()).
Outcome(resp, commits, writes, paywrites, newrewards, newcancels) ==
  [resp |-> resp, commits |-> commits, writes |-> writes, paywrites |-> paywrites,
   newpayments |-> <<>>, newrewards |-> newrewards, newcancels |-> newcancels]

Rejected(resp) == Outcome(resp, FALSE, NoWrites, {}, <<>>, <<>>)

\* ---------------------------------------------------------------- balance
RECURSIVE SumOver(_, _)
SumOver(S, f) ==
  IF S = {} THEN 0
  ELSE LET i == CHOOSE x \in S : TRUE IN f[i] + SumOver(S \ {i}, f)

Remaining(r) == r.points_earned - r.points_redeemed

\* available_points of get_customer_balance.
get_customer_balance(c) ==
  LET total_earned == SumOver({i \in RewardIds : rewards[i].customer_id = c
                                                  /\ rewards[i].status # "EXPIRED"},
                              [i \in RewardIds |-> rewards[i].points_earned])
      total_redeemed == SumOver({i \in RewardIds : rewards[i].customer_id = c},
                                [i \in RewardIds |-> rewards[i].points_redeemed])
  IN total_earned - total_redeemed

\* ---------------------------------------------------------- lot creation
NoExpiryGiven == -2

create_manual_reward_do(c, points_earned, expiry) ==
  LET op == "create_manual_reward" IN
  IF points_earned <= 0
  THEN Rejected(Response(op, FALSE, "Points earned must be positive"))
  ELSE Outcome(Response(op, TRUE, ""), TRUE, NoWrites, {},
               <<Reward(c, NoPayment, points_earned,
                        IF expiry = NoExpiryGiven THEN now + ManualExpiryDays
                        ELSE expiry)>>, <<>>)

\* ------------------------------------------------------ single-lot redeem
NoPoints == -1

\* The handler without its check of the lot's unredeemed points.
redeem_reward_do_NoCheck(id, pts) ==
  LET op == "redeem_reward" IN
  IF id \notin RewardIds THEN Rejected(Response(op, FALSE, "not found"))
  ELSE
  LET reward == rewards[id]
      points_to_redeem == IF pts = NoPoints THEN Remaining(reward) ELSE pts
      available_points == Remaining(reward)
      redeemed == [reward EXCEPT !.points_redeemed = @ + points_to_redeem,
                                 !.redeemed_date = now]
      final == IF redeemed.points_redeemed >= redeemed.points_earned
               THEN [redeemed EXCEPT !.status = "REDEEMED"] ELSE redeemed
  IN
  IF reward.status # "EARNED"
  THEN Rejected(Response(op, FALSE, "Reward is not available for redemption"))
  ELSE IF reward.expiry_date # None /\ now > reward.expiry_date
  THEN Outcome([op |-> op, ok |-> FALSE, err |-> "Reward has expired", lot |-> id],
               TRUE, Flush([rewards EXCEPT ![id].status = "EXPIRED"]), {}, <<>>, <<>>)
  ELSE IF points_to_redeem <= 0
  THEN Rejected(Response(op, FALSE, "Points to redeem must be positive"))
  ELSE Outcome([op |-> op, ok |-> TRUE, err |-> "", lot |-> id,
                points |-> points_to_redeem],
               TRUE, Flush([rewards EXCEPT ![id] = final]), {}, <<>>, <<>>)

\* The handler without its check of the expiry_date.
redeem_reward_do_NoExpiry(id, pts) ==
  LET op == "redeem_reward" IN
  IF id \notin RewardIds THEN Rejected(Response(op, FALSE, "not found"))
  ELSE
  LET reward == rewards[id]
      points_to_redeem == IF pts = NoPoints THEN Remaining(reward) ELSE pts
      available_points == Remaining(reward)
      redeemed == [reward EXCEPT !.points_redeemed = @ + points_to_redeem,
                                 !.redeemed_date = now]
      final == IF redeemed.points_redeemed >= redeemed.points_earned
               THEN [redeemed EXCEPT !.status = "REDEEMED"] ELSE redeemed
  IN
  IF reward.status # "EARNED"
  THEN Rejected(Response(op, FALSE, "Reward is not available for redemption"))
  ELSE IF points_to_redeem <= 0
  THEN Rejected(Response(op, FALSE, "Points to redeem must be positive"))
  ELSE IF points_to_redeem > available_points
  THEN Rejected(Response(op, FALSE, "Insufficient points"))
  ELSE Outcome([op |-> op, ok |-> TRUE, err |-> "", lot |-> id,
                points |-> points_to_redeem],
               TRUE, Flush([rewards EXCEPT ![id] = final]), {}, <<>>, <<>>)

redeem_reward_do(id, pts) ==
  LET op == "redeem_reward" IN
  IF id \notin RewardIds THEN Rejected(Response(op, FALSE, "not found"))
  ELSE
  LET reward == rewards[id]
      points_to_redeem == IF pts = NoPoints THEN Remaining(reward) ELSE pts
      available_points == Remaining(reward)
      redeemed == [reward EXCEPT !.points_redeemed = @ + points_to_redeem,
                                 !.redeemed_date = now]
      final == IF redeemed.points_redeemed >= redeemed.points_earned
               THEN [redeemed EXCEPT !.status = "REDEEMED"] ELSE redeemed
  IN
  IF reward.status # "EARNED"
  THEN Rejected(Response(op, FALSE, "Reward is not available for redemption"))
  ELSE IF reward.expiry_date # None /\ now > reward.expiry_date
  THEN Outcome([op |-> op, ok |-> FALSE, err |-> "Reward has expired", lot |-> id],
               TRUE, Flush([rewards EXCEPT ![id].status = "EXPIRED"]), {}, <<>>, <<>>)
  ELSE IF points_to_redeem <= 0
  THEN Rejected(Response(op, FALSE, "Points to redeem must be positive"))
  ELSE IF points_to_redeem > available_points
  THEN Rejected(Response(op, FALSE, "Insufficient points"))
  ELSE Outcome([op |-> op, ok |-> TRUE, err |-> "", lot |-> id,
                points |-> points_to_redeem],
               TRUE, Flush([rewards EXCEPT ![id] = final]), {}, <<>>, <<>>)

\* ------------------------------------------------- customer-level redeem
\* The query without its filter on the customer.
IsCandidate_AnyCustomer(r, c) ==
  /\ r.status = "EARNED"
  /\ (r.expiry_date = None \/ r.expiry_date > now)

\* The rows the query of redeem_customer_points selects.
IsCandidate(r, c) ==
  /\ r.customer_id = c
  /\ r.status = "EARNED"
  /\ (r.expiry_date = None \/ r.expiry_date > now)

\* ORDER BY earned_date DESC.
OrderByEarnedDate_Desc(S) ==
  {o \in [1..Cardinality(S) -> S] :
     /\ \A i, j \in DOMAIN o : i # j => o[i] # o[j]
     /\ \A i, j \in DOMAIN o :
          i < j => rewards[o[i]].earned_date >= rewards[o[j]].earned_date}

\* ORDER BY earned_date ASC: every order of the rows the database may
\* return; rows with the same earned_date come in either order.
OrderByEarnedDate(S) ==
  {o \in [1..Cardinality(S) -> S] :
     /\ \A i, j \in DOMAIN o : i # j => o[i] # o[j]
     /\ \A i, j \in DOMAIN o :
          i < j => rewards[o[i]].earned_date <= rewards[o[j]].earned_date}

\* The FIFO loop without the cap at the lot's unredeemed points.
RECURSIVE FifoLoop_NoMin(_, _)
FifoLoop_NoMin(available_rewards, remaining_to_redeem) ==
  IF available_rewards = <<>> \/ remaining_to_redeem <= 0 THEN <<>>
  ELSE LET id == Head(available_rewards)
           available_in_reward == rewards[id].points_earned - rewards[id].points_redeemed
       IN IF available_in_reward <= 0
          THEN FifoLoop_NoMin(Tail(available_rewards), remaining_to_redeem)
          ELSE <<[reward_id |-> id, points_redeemed |-> remaining_to_redeem]>>
               \o FifoLoop_NoMin(Tail(available_rewards),
                                 remaining_to_redeem - available_in_reward)

\* The FIFO loop: redeemed_rewards, in order.
RECURSIVE FifoLoop(_, _)
FifoLoop(available_rewards, remaining_to_redeem) ==
  IF available_rewards = <<>> \/ remaining_to_redeem <= 0 THEN <<>>
  ELSE LET id == Head(available_rewards)
           available_in_reward == Remaining(rewards[id])
           redeem_from_this == Min(remaining_to_redeem, available_in_reward)
       IN IF available_in_reward <= 0
          THEN FifoLoop(Tail(available_rewards), remaining_to_redeem)
          ELSE <<[reward_id |-> id, points_redeemed |-> redeem_from_this]>>
               \o FifoLoop(Tail(available_rewards),
                           remaining_to_redeem - redeem_from_this)

\* The reward rows as the FIFO loop leaves them in the session.
AfterFifo(redeemed_rewards) ==
  [i \in RewardIds |->
     LET mine == {k \in DOMAIN redeemed_rewards : redeemed_rewards[k].reward_id = i}
     IN IF mine = {} THEN rewards[i]
        ELSE LET a == redeemed_rewards[CHOOSE k \in mine : TRUE]
                 r == rewards[i]
                 pr == r.points_redeemed + a.points_redeemed
             IN [r EXCEPT
                   !.points_redeemed = pr,
                   !.redeemed_date = IF @ = None THEN now ELSE @,
                   !.status = IF pr >= r.points_earned THEN "REDEEMED" ELSE @]]

AvailableRewardIds(c) == {i \in RewardIds : IsCandidate(rewards[i], c)}

\* The handler without its check of the total.
redeem_customer_points_do_NoCheck(c, points_to_redeem, available_rewards) ==
  LET op == "redeem_customer_points"
      total_available == SumOver(AvailableRewardIds(c),
                                 [i \in RewardIds |-> Remaining(rewards[i])])
      redeemed_rewards == FifoLoop(available_rewards, points_to_redeem)
  IN
  IF points_to_redeem <= 0
  THEN Rejected([op |-> op, ok |-> FALSE, err |-> "Points to redeem must be positive",
                 customer |-> c, points |-> points_to_redeem])
  ELSE Outcome([op |-> op, ok |-> TRUE, err |-> "",
                customer |-> c, points |-> points_to_redeem,
                available |-> total_available, concurrent_with |-> 0,
                redeemed_from_rewards |-> redeemed_rewards],
               TRUE, Flush(AfterFifo(redeemed_rewards)), {}, <<>>, <<>>)

redeem_customer_points_do(c, points_to_redeem, available_rewards) ==
  LET op == "redeem_customer_points"
      total_available == SumOver(AvailableRewardIds(c),
                                 [i \in RewardIds |-> Remaining(rewards[i])])
      redeemed_rewards == FifoLoop(available_rewards, points_to_redeem)
  IN
  IF points_to_redeem <= 0
  THEN Rejected([op |-> op, ok |-> FALSE, err |-> "Points to redeem must be positive",
                 customer |-> c, points |-> points_to_redeem])
  ELSE IF points_to_redeem > total_available
  THEN Rejected([op |-> op, ok |-> FALSE, err |-> "Insufficient points",
                 customer |-> c, points |-> points_to_redeem])
  ELSE Outcome([op |-> op, ok |-> TRUE, err |-> "",
                customer |-> c, points |-> points_to_redeem,
                available |-> total_available, concurrent_with |-> 0,
                redeemed_from_rewards |-> redeemed_rewards],
               TRUE, Flush(AfterFifo(redeemed_rewards)), {}, <<>>, <<>>)

\* ---------------------------------------------------------------- payment
\* Ten times the multiplier of each card product.
MultiplierTenths(product_type) ==
  CASE product_type = "PLATINUM" -> 30
    [] product_type = "GOLD" -> 20
    [] product_type = "SILVER" -> 15
    [] product_type = "BASIC" -> 10
    [] OTHER -> 10

calculate_reward_points(amount, product_type) ==
  LET base_points == amount
  IN (base_points * MultiplierTenths(product_type)) \div 10

\* The payment row is committed first, the reward row in a second commit.
make_payment_do(c, amount, product_type) ==
  LET op == "make_payment"
      points_earned == calculate_reward_points(amount, product_type)
      payment_id == Len(payments) + 1
  IN
  IF amount <= 0 THEN Rejected(Response(op, FALSE, "Amount must be positive"))
  ELSE [Outcome([op |-> op, ok |-> TRUE, err |-> "", payment |-> payment_id],
                TRUE, NoWrites, {},
                IF points_earned > 0
                THEN <<Reward(c, payment_id, points_earned, now + PaymentExpiryDays)>>
                ELSE <<>>, <<>>)
        EXCEPT !.newpayments = <<Payment(amount)>>]

\* ----------------------------------------------------------------- refund
NoAmount == -1

\* The deduction without the refunded fraction.
PointsToDeduct_Whole(refund_amount, amount, points_earned) == points_earned

\* int((refund_amount / payment.amount) * reward.points_earned)
PointsToDeduct(refund_amount, amount, points_earned) ==
  (refund_amount * points_earned) \div amount

\* A claw-back that takes the points off points_earned.
AfterClawBack_DeductsEarned(payment_id, refund_amount) ==
  [i \in RewardIds |->
     LET reward == rewards[i]
         points_to_deduct == PointsToDeduct(refund_amount, payments[payment_id].amount,
                                            reward.points_earned)
         points_redeemed == Min(reward.points_earned, points_to_deduct)
     IN IF reward.payment_id = payment_id /\ reward.status = "EARNED"
        THEN [reward EXCEPT
                !.points_earned = @ - (points_redeemed - reward.points_redeemed)]
        ELSE reward]

\* A claw-back from the lots of the payment whatever their status.
AfterClawBack_AnyStatus(payment_id, refund_amount) ==
  [i \in RewardIds |->
     LET reward == rewards[i]
         points_to_deduct == PointsToDeduct(refund_amount, payments[payment_id].amount,
                                            reward.points_earned)
         points_redeemed == Min(reward.points_earned, points_to_deduct)
     IN IF reward.payment_id = payment_id
        THEN [reward EXCEPT
                !.points_redeemed = points_redeemed,
                !.status = IF points_redeemed = reward.points_earned
                           THEN "REDEEMED" ELSE @]
        ELSE reward]

\* The reward rows as the claw-back loop leaves them in the session.
AfterClawBack(payment_id, refund_amount) ==
  [i \in RewardIds |->
     LET reward == rewards[i]
         points_to_deduct == PointsToDeduct(refund_amount, payments[payment_id].amount,
                                            reward.points_earned)
         points_redeemed == Min(reward.points_earned, points_to_deduct)
     IN IF reward.payment_id = payment_id /\ reward.status = "EARNED"
        THEN [reward EXCEPT
                !.points_redeemed = points_redeemed,
                !.status = IF points_redeemed = reward.points_earned
                           THEN "REDEEMED" ELSE @]
        ELSE reward]

refund_payment_do(payment_id, amt) ==
  LET op == "refund_payment" IN
  IF payment_id \notin PaymentIds THEN Rejected(Response(op, FALSE, "not found"))
  ELSE
  LET payment == payments[payment_id]
      refund_amount == IF amt = NoAmount THEN payment.amount ELSE amt
  IN
  IF payment.status = "REFUNDED"
  THEN Rejected(Response(op, FALSE, "Payment already refunded"))
  ELSE IF payment.status # "COMPLETED"
  THEN Rejected(Response(op, FALSE, "Can only refund completed payments"))
  ELSE IF refund_amount <= 0 \/ refund_amount > payment.amount
  THEN Rejected(Response(op, FALSE, "Invalid refund amount"))
  ELSE Outcome([op |-> op, ok |-> TRUE, err |-> "", payment |-> payment_id,
                refund_amount |-> refund_amount],
               TRUE, Flush(AfterClawBack(payment_id, refund_amount)),
               IF refund_amount = payment.amount
               THEN {<<payment_id, "REFUNDED">>} ELSE {},
               <<>>, <<>>)

\* ----------------------------------------------------------- expiry sweep
\* The sweep without its status filter.
expire_rewards_do_AnyStatus ==
  LET op == "expire_rewards"
      expired_rewards == {i \in RewardIds :
                            /\ rewards[i].expiry_date # None
                            /\ rewards[i].expiry_date < now}
      expired_count == Cardinality(expired_rewards)
  IN Outcome([op |-> op, ok |-> TRUE, err |-> "", expired_count |-> expired_count,
              previous |-> last.op],
             expired_count > 0,
             Flush([i \in RewardIds |->
                      IF i \in expired_rewards
                      THEN [rewards[i] EXCEPT !.status = "EXPIRED"] ELSE rewards[i]]),
             {}, <<>>, <<>>)

\* The sweep that also takes lots whose expiry_date is the current time.
expire_rewards_do_NotYetDue ==
  LET op == "expire_rewards"
      expired_rewards == {i \in RewardIds :
                            /\ rewards[i].status = "EARNED"
                            /\ rewards[i].expiry_date # None
                            /\ rewards[i].expiry_date <= now}
      expired_count == Cardinality(expired_rewards)
  IN Outcome([op |-> op, ok |-> TRUE, err |-> "", expired_count |-> expired_count,
              previous |-> last.op],
             expired_count > 0,
             Flush([i \in RewardIds |->
                      IF i \in expired_rewards
                      THEN [rewards[i] EXCEPT !.status = "EXPIRED"] ELSE rewards[i]]),
             {}, <<>>, <<>>)

\* previous is not part of the HTTP response: it records which handler
\* returned last before this sweep.
expire_rewards_do ==
  LET op == "expire_rewards"
      expired_rewards == {i \in RewardIds :
                            /\ rewards[i].status = "EARNED"
                            /\ rewards[i].expiry_date # None
                            /\ rewards[i].expiry_date < now}
      expired_count == Cardinality(expired_rewards)
  IN Outcome([op |-> op, ok |-> TRUE, err |-> "", expired_count |-> expired_count,
              previous |-> last.op],
             expired_count > 0,
             Flush([i \in RewardIds |->
                      IF i \in expired_rewards
                      THEN [rewards[i] EXCEPT !.status = "EXPIRED"] ELSE rewards[i]]),
             {}, <<>>, <<>>)

\* ------------------------------------------------ redemption cancellation
\* The fee without the division by 100.
CancellationFee_NoPercent(points_to_restore) ==
  points_to_restore * CancellationFeePercent

\* int(points_to_restore * 0.05)
CancellationFee(points_to_restore) ==
  (points_to_restore * CancellationFeePercent) \div 100

\* The handler without its check of the lot's status.
cancel_points_redemption_do_NoStatusCheck(reward_id) ==
  LET op == "cancel_points_redemption" IN
  IF reward_id \notin RewardIds THEN Rejected(Response(op, FALSE, "Reward not found"))
  ELSE
  LET original_reward == rewards[reward_id]
      points_to_restore == original_reward.points_earned
      cancellation_fee_points ==
        IF original_reward.status = "REDEEMED"
        THEN CancellationFee(points_to_restore) ELSE 0
      net_points_restored == points_to_restore - cancellation_fee_points
      cancellation ==
        [original_reward_id |-> reward_id,
         customer_id |-> original_reward.customer_id,
         points_to_restore |-> points_to_restore,
         cancellation_fee_points |-> cancellation_fee_points,
         net_points_restored |-> net_points_restored,
         status |-> "APPROVED"]
  IN
  Outcome([op |-> op, ok |-> TRUE, err |-> "", lot |-> reward_id,
           points_to_restore |-> points_to_restore,
           cancellation_fee_points |-> cancellation_fee_points,
           net_points_restored |-> net_points_restored],
          TRUE, NoWrites, {}, <<>>, <<cancellation>>)

\* status_notes is not a column of rewards: the handler's only write is the
\* redemption_cancellation row.
cancel_points_redemption_do(reward_id) ==
  LET op == "cancel_points_redemption" IN
  IF reward_id \notin RewardIds THEN Rejected(Response(op, FALSE, "Reward not found"))
  ELSE
  LET original_reward == rewards[reward_id]
      points_to_restore == original_reward.points_earned
      cancellation_fee_points ==
        IF original_reward.status = "REDEEMED"
        THEN CancellationFee(points_to_restore) ELSE 0
      net_points_restored == points_to_restore - cancellation_fee_points
      cancellation ==
        [original_reward_id |-> reward_id,
         customer_id |-> original_reward.customer_id,
         points_to_restore |-> points_to_restore,
         cancellation_fee_points |-> cancellation_fee_points,
         net_points_restored |-> net_points_restored,
         status |-> "APPROVED"]
  IN
  IF original_reward.status \notin {"EARNED", "REDEEMED"}
  THEN Rejected([op |-> op, ok |-> FALSE, err |-> "Cannot cancel reward with status",
                 lot |-> reward_id])
  ELSE Outcome([op |-> op, ok |-> TRUE, err |-> "", lot |-> reward_id,
                points_to_restore |-> points_to_restore,
                cancellation_fee_points |-> cancellation_fee_points,
                net_points_restored |-> net_points_restored],
               TRUE, NoWrites, {}, <<>>, <<cancellation>>)

\* ------------------------------------------------------ serving a request
\* A commit that replaces the cancellation records by the new ones.
Committed_Overwrite(o) ==
  /\ rewards' = ApplyWrites(o.writes) \o o.newrewards
  /\ payments' = ApplyPaymentWrites(o.paywrites) \o o.newpayments
  /\ cancellations' = o.newcancels

\* db.session.commit(): the rows after the unit of work o is written.
Committed(o) ==
  /\ rewards' = ApplyWrites(o.writes) \o o.newrewards
  /\ payments' = ApplyPaymentWrites(o.paywrites) \o o.newpayments
  /\ cancellations' = cancellations \o o.newcancels

\* One request served alone: read, compute, commit, respond.
ServeWithin(max, o) ==
  /\ requests < max
  /\ requests' = requests + 1
  /\ IF o.commits THEN Committed(o)
     ELSE UNCHANGED <<rewards, payments, cancellations>>
  /\ last' = o.resp
  /\ UNCHANGED <<now, pending>>

Serve(o) == ServeWithin(MaxRequests, o)

\* One request on thread t, up to its last commit.  make_payment has
\* committed its payment row by then; every other handler commits once.
Begin(t, o) ==
  /\ pending[t] = Idle
  /\ requests < MaxRequestsConc
  /\ requests' = requests + 1
  /\ IF o.commits
     THEN /\ pending' = [pending EXCEPT ![t] =
                           [op |-> o.resp.op, work |-> [o EXCEPT !.newpayments = <<>>]]]
          /\ payments' = payments \o o.newpayments
          /\ UNCHANGED last
     ELSE /\ last' = o.resp
          /\ UNCHANGED <<pending, payments>>
  /\ UNCHANGED <<rewards, cancellations, now>>

\* A customer-level redeem that is in flight when another redeem of the same
\* customer, computed from the same total, commits: concurrent_with records
\* the points of that other redeem.
Overlapped(w, resp) ==
  IF /\ resp.op = "redeem_customer_points" /\ resp.ok
     /\ w.op = "redeem_customer_points"
     /\ w.work.resp.customer = resp.customer
     /\ w.work.resp.available = resp.available
  THEN [w EXCEPT !.work.resp.concurrent_with = resp.points]
  ELSE w

\* The commit of thread t's request, and its response.
Commit(t) ==
  /\ pending[t] # Idle
  /\ Committed(pending[t].work)
  /\ last' = pending[t].work.resp
  /\ pending' = [u \in Threads |->
                   IF u = t THEN Idle ELSE Overlapped(pending[u], pending[t].work.resp)]
  /\ UNCHANGED <<now, requests>>

PendingInserts(field) ==
  Cardinality({t \in Threads : pending[t] # Idle /\ pending[t].work[field] # <<>>})

RoomForReward == Len(rewards) + PendingInserts("newrewards") < MaxLots
RoomForPayment == Len(payments) < MaxPayments
RoomForCancellation ==
  Len(cancellations) + PendingInserts("newcancels") < MaxCancellations

\* ------------------------------------------------------------- operations
Tick ==
  /\ now < MaxNow
  /\ now' = now + 1
  /\ last' = Response("tick", TRUE, "")
  /\ UNCHANGED <<rewards, payments, cancellations, pending, requests>>

create_manual_reward ==
  \E c \in Customers, pe \in PointsInputs, e \in ExpiryInputs \cup {NoExpiryGiven} :
    LET o == create_manual_reward_do(c, pe, e)
    IN (o.commits => RoomForReward) /\ Serve(o)

make_payment ==
  \E c \in Customers, a \in AmountInputs, p \in ProductInputs :
    LET o == make_payment_do(c, a, p)
    IN (o.commits => RoomForReward /\ RoomForPayment) /\ Serve(o)

redeem_reward ==
  \E id \in 1..MaxLots, pts \in RedeemInputs \cup {NoPoints} :
    Serve(redeem_reward_do(id, pts))

redeem_customer_points ==
  \E c \in Customers, n \in RedeemInputs :
    \E available_rewards \in OrderByEarnedDate(AvailableRewardIds(c)) :
      Serve(redeem_customer_points_do(c, n, available_rewards))

refund_payment ==
  \E p \in 1..MaxPayments, a \in RefundInputs \cup {NoAmount} :
    Serve(refund_payment_do(p, a))

expire_rewards == Serve(expire_rewards_do)

cancel_points_redemption ==
  \E id \in 1..MaxLots :
    LET o == cancel_points_redemption_do(id)
    IN (o.commits => RoomForCancellation) /\ Serve(o)

Next ==
  \/ Tick
  \/ create_manual_reward
  \/ make_payment
  \/ redeem_reward
  \/ redeem_customer_points
  \/ refund_payment
  \/ expire_rewards
  \/ cancel_points_redemption

Spec == Init /\ [][Next]_vars

\* The same handlers on concurrent threads.  create_manual_reward reads no
\* row and commits one INSERT: it takes effect at its commit, in one step.
create_manual_reward_conc ==
  \E c \in Customers, pe \in PointsInputs, e \in ExpiryInputs \cup {NoExpiryGiven} :
    LET o == create_manual_reward_do(c, pe, e)
    IN (o.commits => RoomForReward) /\ ServeWithin(MaxRequestsConc, o)

make_payment_conc(t) ==
  \E c \in Customers, a \in AmountInputs, p \in ProductInputs :
    LET o == make_payment_do(c, a, p)
    IN (o.commits => RoomForReward /\ RoomForPayment) /\ Begin(t, o)

redeem_reward_conc(t) ==
  \E id \in 1..MaxLots, pts \in RedeemInputs \cup {NoPoints} :
    Begin(t, redeem_reward_do(id, pts))

redeem_customer_points_conc(t) ==
  \E c \in Customers, n \in RedeemInputs :
    \E available_rewards \in OrderByEarnedDate(AvailableRewardIds(c)) :
      Begin(t, redeem_customer_points_do(c, n, available_rewards))

refund_payment_conc(t) ==
  \E p \in 1..MaxPayments, a \in RefundInputs \cup {NoAmount} :
    Begin(t, refund_payment_do(p, a))

expire_rewards_conc(t) == Begin(t, expire_rewards_do)

cancel_points_redemption_conc(t) ==
  \E id \in 1..MaxLots :
    LET o == cancel_points_redemption_do(id)
    IN (o.commits => RoomForCancellation) /\ Begin(t, o)

NextConc ==
  \/ Tick
  \/ create_manual_reward_conc
  \/ \E t \in Threads : make_payment_conc(t)
  \/ \E t \in Threads : redeem_reward_conc(t)
  \/ \E t \in Threads : redeem_customer_points_conc(t)
  \/ \E t \in Threads : refund_payment_conc(t)
  \/ \E t \in Threads : expire_rewards_conc(t)
  \/ \E t \in Threads : cancel_points_redemption_conc(t)
  \/ \E t \in Threads : Commit(t)

SpecConc == Init /\ [][NextConc]_vars

\* ================================================================= claims
\* The customer's lots a customer-level redeem may draw from, as the claims
\* state them: status EARNED, expiry_date null or in the future.
CandidateLots(c) ==
  {i \in RewardIds : /\ rewards[i].customer_id = c
                     /\ rewards[i].status = "EARNED"
                     /\ (rewards[i].expiry_date = None \/ rewards[i].expiry_date > now)}

Unredeemed(i) == rewards[i].points_earned - rewards[i].points_redeemed

UnredeemedOf == [i \in RewardIds |-> Unredeemed(i)]

RECURSIVE SumOfAllocations(_, _)
SumOfAllocations(allocs, k) ==
  IF k = 0 THEN 0 ELSE allocs[k].points_redeemed + SumOfAllocations(allocs, k - 1)

\* C1: in every reachable state, under any interleaving of lot creation,
\* both redemption paths, refund claw-back, expiry sweep and redemption
\* cancellation, every lot has 0 <= points_redeemed <= points_earned.
C1_RedeemedWithinEarned ==
  \A i \in RewardIds :
    /\ 0 <= rewards[i].points_redeemed
    /\ rewards[i].points_redeemed <= rewards[i].points_earned

\* Two redemptions of one customer overlapped and a lot is fully redeemed.
C1_Witness ==
  /\ last.op = "redeem_customer_points" /\ last.ok
  /\ last.concurrent_with > 0
  /\ \E i \in RewardIds : /\ rewards[i].customer_id = last.customer
                          /\ rewards[i].points_redeemed = rewards[i].points_earned

\* C2: of two concurrent customer-level redeems of one customer that each
\* request more than half of the available total both read, never both
\* succeed.
C2_NeverBothSucceed ==
  ~ /\ last.op = "redeem_customer_points" /\ last.ok
    /\ last.concurrent_with > 0
    /\ 2 * last.points > last.available
    /\ 2 * last.concurrent_with > last.available

\* C3: available_points of get_customer_balance is the sum of
\* points_earned - points_redeemed over the customer's lots that are not
\* EXPIRED.
C3_BalanceIsSumOverOpenLots ==
  \A c \in Customers :
    get_customer_balance(c) =
      SumOver({i \in RewardIds : rewards[i].customer_id = c
                                 /\ rewards[i].status # "EXPIRED"}, UnredeemedOf)

\* C4: the available balance reported for a customer is never negative.
C4_BalanceNeverNegative ==
  \A c \in Customers : get_customer_balance(c) >= 0

\* C5: a successful customer-level redeem of n points draws from the
\* candidate lots in ascending earned_date order: only candidates change, a
\* lot is drawn from only if every older candidate ends fully redeemed, each
\* allocation is the minimum of what is still requested and the lot's
\* unredeemed points, and the allocations sum to n.
C5_FifoAllocation ==
  [][(last'.op = "redeem_customer_points" /\ last'.ok) =>
       LET c == last'.customer
           n == last'.points
           allocs == last'.redeemed_from_rewards
           Taken(i) == rewards'[i].points_redeemed - rewards[i].points_redeemed
       IN /\ DOMAIN rewards' = DOMAIN rewards
          /\ \A i \in RewardIds \ CandidateLots(c) : rewards'[i] = rewards[i]
          /\ \A i \in CandidateLots(c) : Taken(i) >= 0
          /\ SumOver(CandidateLots(c), [i \in RewardIds |-> Taken(i)]) = n
          /\ \A i, j \in CandidateLots(c) :
               (rewards[i].earned_date < rewards[j].earned_date /\ Taken(j) > 0)
                 => rewards'[i].points_redeemed = rewards[i].points_earned
          /\ \A k \in DOMAIN allocs :
               /\ allocs[k].reward_id \in CandidateLots(c)
               /\ allocs[k].points_redeemed = Taken(allocs[k].reward_id)
               /\ allocs[k].points_redeemed =
                    Min(n - SumOfAllocations(allocs, k - 1),
                        Unredeemed(allocs[k].reward_id))
               /\ \A m \in DOMAIN allocs :
                    m < k => /\ allocs[m].reward_id # allocs[k].reward_id
                             /\ rewards[allocs[m].reward_id].earned_date
                                  <= rewards[allocs[k].reward_id].earned_date
          /\ \A i \in CandidateLots(c) :
               Taken(i) > 0 => \E k \in DOMAIN allocs : allocs[k].reward_id = i
    ]_vars

\* A redeem exhausted the customer's older lot and took part of a newer one.
C5_Witness ==
  /\ last.op = "redeem_customer_points" /\ last.ok
  /\ Len(last.redeemed_from_rewards) = 2
  /\ LET a == last.redeemed_from_rewards[1].reward_id
         b == last.redeemed_from_rewards[2].reward_id
     IN /\ rewards[a].earned_date < rewards[b].earned_date
        /\ rewards[a].status = "REDEEMED"
        /\ rewards[b].status = "EARNED"
        /\ rewards[b].points_redeemed = last.redeemed_from_rewards[2].points_redeemed

\* C6: a customer-level redeem that requests more than the unredeemed total
\* of the customer's candidate lots fails with the insufficient-points
\* error and changes no lot.
C6_InsufficientChangesNothing ==
  [][(/\ last'.op = "redeem_customer_points"
      /\ last'.points > SumOver(CandidateLots(last'.customer), UnredeemedOf)) =>
       /\ ~last'.ok
       /\ last'.err = "Insufficient points"
       /\ rewards' = rewards
    ]_vars

\* A redeem was refused although a candidate lot had unredeemed points.
C6_Witness ==
  /\ last.op = "redeem_customer_points"
  /\ last.err = "Insufficient points"
  /\ \E i \in CandidateLots(last.customer) : Unredeemed(i) > 0

\* C7: a refund never decreases points_redeemed of a lot of the refunded
\* payment.
C7_RefundNeverDecreasesRedeemed ==
  [][(last'.op = "refund_payment" /\ last'.ok) =>
       \A i \in RewardIds :
         rewards[i].payment_id = last'.payment
           => rewards'[i].points_redeemed >= rewards[i].points_redeemed
    ]_vars

\* C8: a refund of fraction f = refund_amount / amount of a payment leaves
\* an EARNED lot of that payment that had nothing redeemed with
\* points_redeemed at most f * points_earned and at most one point below
\* it (f * points_earned rounded to an integer), the rest of its
\* points unredeemed, and the lot EARNED unless nothing is left.
C8_ProportionalClawBack ==
  [][(last'.op = "refund_payment" /\ last'.ok) =>
       \A i \in RewardIds :
         (/\ rewards[i].payment_id = last'.payment
          /\ rewards[i].status = "EARNED"
          /\ rewards[i].points_redeemed = 0) =>
            LET amount == payments[last'.payment].amount
                exact == last'.refund_amount * rewards[i].points_earned
                clawed == rewards'[i].points_redeemed
            IN /\ clawed * amount >= exact - amount
               /\ clawed * amount <= exact
               /\ rewards'[i].points_earned = rewards[i].points_earned
               /\ rewards'[i].status =
                    IF clawed = rewards[i].points_earned THEN "REDEEMED" ELSE "EARNED"
    ]_vars

\* Half of a payment was refunded and its unredeemed 3-point lot lost 1 point.
C8_Witness ==
  /\ last.op = "refund_payment" /\ last.ok
  /\ 2 * last.refund_amount = payments[last.payment].amount
  /\ \E i \in RewardIds :
       /\ rewards[i].payment_id = last.payment
       /\ rewards[i].redeemed_date = None
       /\ rewards[i].status = "EARNED"
       /\ rewards[i].points_redeemed = 1
       /\ rewards[i].points_earned = 3

\* C9: a customer-level redeem of n points followed at once by a
\* cancellation of that redemption with no fee puts the customer's available
\* balance back to its value before the redeem (its value after the redeem
\* plus n).
C9_RedeemCancelRoundTrip ==
  [][(/\ last.op = "redeem_customer_points" /\ last.ok
      /\ last'.op = "cancel_points_redemption" /\ last'.ok
      /\ last'.cancellation_fee_points = 0
      /\ \E k \in DOMAIN last.redeemed_from_rewards :
           last.redeemed_from_rewards[k].reward_id = last'.lot) =>
       \A c \in Customers :
         c = last.customer =>
           get_customer_balance(c)' = get_customer_balance(c) + last.points
    ]_vars

\* C10: a successful cancellation decreases the lot's points_redeemed by
\* points_to_restore and reopens a REDEEMED lot to EARNED.
C10_CancellationRestoresLot ==
  [][(last'.op = "cancel_points_redemption" /\ last'.ok) =>
       /\ rewards'[last'.lot].points_redeemed =
            rewards[last'.lot].points_redeemed - last'.points_to_restore
       /\ rewards[last'.lot].status = "REDEEMED"
            => rewards'[last'.lot].status = "EARNED"
    ]_vars

\* C11: in every reachable state, under any interleaving of redemptions,
\* refunds, sweeps and cancellations, a lot is REDEEMED if and only if
\* points_redeemed = points_earned; EARNED and EXPIRED lots have
\* points_redeemed < points_earned.
C11_StatusMatchesPoints ==
  \A i \in RewardIds :
    /\ rewards[i].status = "REDEEMED"
         <=> rewards[i].points_redeemed = rewards[i].points_earned
    /\ rewards[i].status \in {"EARNED", "EXPIRED"}
         => rewards[i].points_redeemed < rewards[i].points_earned

\* C12: once a lot is EXPIRED no step changes its status or its
\* points_redeemed, also when the sweep overlaps a redemption that read the
\* lot as EARNED.
C12_ExpiredIsAbsorbing ==
  [][\A i \in RewardIds :
       rewards[i].status = "EXPIRED" =>
         /\ rewards'[i].status = "EXPIRED"
         /\ rewards'[i].points_redeemed = rewards[i].points_redeemed
    ]_vars

\* C13: a sweep that runs right after a sweep, with no lot passing its
\* expiry_date in between, changes no lot and reports an expired count of 0.
C13_SweepIdempotent ==
  [][(last.op = "expire_rewards" /\ last'.op = "expire_rewards") =>
       /\ rewards' = rewards
       /\ last'.expired_count = 0
    ]_vars

\* A sweep found nothing to expire right after a sweep; a lot is EXPIRED.
C13_Witness ==
  /\ last.op = "expire_rewards"
  /\ last.previous = "expire_rewards"
  /\ last.expired_count = 0
  /\ \E i \in RewardIds : /\ rewards[i].status = "EXPIRED"
                          /\ rewards[i].expiry_date < now

\* C14: the sweep sets status to EXPIRED on the lots that are EARNED with
\* expiry_date strictly before the sweep time and changes nothing else:
\* points_redeemed and points_earned of every lot stay, and so does every
\* lot that is REDEEMED, EXPIRED, without expiry_date or not yet due.
C14_SweepFrame ==
  [][(last'.op = "expire_rewards") =>
       /\ DOMAIN rewards' = DOMAIN rewards
       /\ \A i \in RewardIds :
            LET due == /\ rewards[i].status = "EARNED"
                       /\ rewards[i].expiry_date # None
                       /\ rewards[i].expiry_date < now
            IN rewards'[i] = IF due THEN [rewards[i] EXCEPT !.status = "EXPIRED"]
                             ELSE rewards[i]
    ]_vars

\* A sweep expired one lot and left a lot that is not yet due EARNED.
C14_Witness ==
  /\ last.op = "expire_rewards"
  /\ last.expired_count = 1
  /\ \E i \in RewardIds : /\ rewards[i].status = "EXPIRED"
                          /\ rewards[i].expiry_date < now
  /\ \E i \in RewardIds : /\ rewards[i].status = "EARNED"
                          /\ rewards[i].expiry_date > now

\* The customer's lots that are neither EXPIRED nor past their expiry_date.
OpenLotsAsOfNow(c) ==
  {i \in RewardIds : /\ rewards[i].customer_id = c
                     /\ rewards[i].status # "EXPIRED"
                     /\ ~(rewards[i].expiry_date # None /\ rewards[i].expiry_date < now)}

\* C15: the balance is read over the lots that are not expired as of the
\* read: a lot whose expiry_date is in the past contributes nothing to
\* available_points, swept or not.
C15_BalanceExcludesPastExpiry ==
  \A c \in Customers :
    get_customer_balance(c) = SumOver(OpenLotsAsOfNow(c), UnredeemedOf)

\* C16: a refund whose proportional claw-back for a lot exceeds the lot's
\* unredeemed points reports the shortfall as a deficit in its response, and
\* points_redeemed stays within points_earned.
C16_DeficitReported ==
  [][(/\ last'.op = "refund_payment" /\ last'.ok
      /\ \E i \in RewardIds :
           /\ rewards[i].payment_id = last'.payment
           /\ (last'.refund_amount * rewards[i].points_earned)
                \div payments[last'.payment].amount > Unredeemed(i)) =>
       /\ "deficit" \in DOMAIN last'
       /\ \A i \in RewardIds :
            rewards'[i].points_redeemed <= rewards'[i].points_earned
    ]_vars

\* C17: a cancellation is accepted only for a lot that is EARNED or
\* REDEEMED; against an EXPIRED lot it is rejected with an error, adds no
\* cancellation record and leaves the lot unchanged.
C17_CancelRejectedForExpired ==
  [][(/\ last'.op = "cancel_points_redemption"
      /\ "lot" \in DOMAIN last') =>
       /\ last'.ok => rewards[last'.lot].status \in {"EARNED", "REDEEMED"}
       /\ rewards[last'.lot].status = "EXPIRED" =>
            /\ ~last'.ok
            /\ last'.err # ""
            /\ cancellations' = cancellations
            /\ rewards' = rewards
    ]_vars

\* A cancellation of an EXPIRED lot was rejected.
C17_Witness ==
  /\ last.op = "cancel_points_redemption"
  /\ ~last.ok
  /\ "lot" \in DOMAIN last
  /\ rewards[last.lot].status = "EXPIRED"
  /\ cancellations = <<>>

\* C18: points_to_restore, as returned and as recorded by an accepted
\* cancellation, is the lot's points_redeemed at the time of the call.
C18_RestoreEqualsRedeemed ==
  [][(last'.op = "cancel_points_redemption" /\ last'.ok) =>
       /\ last'.points_to_restore = rewards[last'.lot].points_redeemed
       /\ cancellations'[Len(cancellations')].points_to_restore
            = rewards[last'.lot].points_redeemed
    ]_vars

\* C19: for every accepted cancellation the fee is 0 for an EARNED lot and
\* the fee-rate share of points_to_restore, rounded to an integer, for a
\* REDEEMED lot; net_points_restored = points_to_restore - fee; and
\* 0 <= fee <= points_to_restore.
C19_FeeNumerics ==
  [][(last'.op = "cancel_points_redemption" /\ last'.ok) =>
       LET rec == cancellations'[Len(cancellations')]
           fee == rec.cancellation_fee_points
           restore == rec.points_to_restore
       IN /\ rewards[last'.lot].status = "EARNED" => fee = 0
          /\ rewards[last'.lot].status = "REDEEMED" =>
               /\ 100 * fee > restore * CancellationFeePercent - 100
               /\ 100 * fee < restore * CancellationFeePercent + 100
          /\ rec.net_points_restored = restore - fee
          /\ 0 <= fee /\ fee <= restore
          /\ last'.cancellation_fee_points = fee
          /\ last'.points_to_restore = restore
          /\ last'.net_points_restored = rec.net_points_restored
    ]_vars

\* A REDEEMED lot of 20 points was cancelled for a fee of 1 point, 19 net.
C19_Witness ==
  /\ last.op = "cancel_points_redemption" /\ last.ok
  /\ rewards[last.lot].status = "REDEEMED"
  /\ last.points_to_restore = 20
  /\ last.cancellation_fee_points = 1
  /\ cancellations[Len(cancellations)].net_points_restored = 19

\* C20: every accepted cancellation appends exactly one cancellation record
\* that references the lot and its customer, and no step modifies or
\* removes a record that exists.
C20_CancellationsAppendOnly ==
  [][/\ Len(cancellations') >= Len(cancellations)
     /\ SubSeq(cancellations', 1, Len(cancellations)) = cancellations
     /\ (last'.op = "cancel_points_redemption" /\ last'.ok) =>
          /\ Len(cancellations') = Len(cancellations) + 1
          /\ cancellations'[Len(cancellations')].original_reward_id = last'.lot
          /\ cancellations'[Len(cancellations')].customer_id
               = rewards[last'.lot].customer_id
    ]_vars

\* A lot was redeemed after its cancellation was recorded; the record stays.
C20_Witness ==
  /\ last.op = "redeem_reward" /\ last.ok
  /\ Len(cancellations) >= 1
  /\ cancellations[1].original_reward_id = last.lot
  /\ cancellations[1].customer_id = rewards[last.lot].customer_id

\* C21: no step changes points_earned, customer_id or payment_id of an
\* existing lot, and no step deletes a lot.
C21_LotIdentityImmutable ==
  [][/\ DOMAIN rewards \subseteq DOMAIN rewards'
     /\ \A i \in RewardIds :
          /\ rewards'[i].points_earned = rewards[i].points_earned
          /\ rewards'[i].customer_id = rewards[i].customer_id
          /\ rewards'[i].payment_id = rewards[i].payment_id
    ]_vars

\* A refund clawed points back from a payment's lot after a redemption
\* from it; the lot still has the 3 points it earned.
C21_Witness ==
  /\ last.op = "refund_payment" /\ last.ok
  /\ \E i \in RewardIds :
       /\ rewards[i].payment_id = last.payment
       /\ rewards[i].redeemed_date # None
       /\ rewards[i].points_redeemed > 0
       /\ rewards[i].points_earned = 3

\* C22: a single-lot redemption fails, and leaves points_redeemed of every
\* lot as it was, whenever the requested amount exceeds the lot's
\* points_earned - points_redeemed, is not positive, or the lot is not
\* EARNED: one that succeeds was for a positive amount within the unredeemed
\* points of an EARNED lot.
C22_RedeemRewardFailures ==
  [][(last'.op = "redeem_reward") =>
       IF last'.ok
       THEN /\ rewards[last'.lot].status = "EARNED"
            /\ last'.points > 0
            /\ last'.points <= Unredeemed(last'.lot)
       ELSE /\ DOMAIN rewards' = DOMAIN rewards
            /\ \A i \in RewardIds :
                 rewards'[i].points_redeemed = rewards[i].points_redeemed
    ]_vars

\* A redemption from the only lot, partly redeemed, was refused for lack of
\* points.
C22_Witness ==
  /\ last.op = "redeem_reward"
  /\ last.err = "Insufficient points"
  /\ Len(rewards) = 1
  /\ rewards[1].status = "EARNED"
  /\ rewards[1].points_redeemed > 0

\* C23: a lot's redeemed_date, once set by the first redemption from the
\* lot, is not changed by a later redemption through either path.
C23_RedeemedDateSetOnce ==
  [][(last'.op \in {"redeem_reward", "redeem_customer_points"}) =>
       \A i \in RewardIds :
         rewards[i].redeemed_date # None
           => rewards'[i].redeemed_date = rewards[i].redeemed_date
    ]_vars

\* The points redeemed over all lots of customer c.
CustomerRedeemed(c) ==
  SumOver({i \in RewardIds : rewards[i].customer_id = c},
          [i \in RewardIds |-> rewards[i].points_redeemed])

\* C24: no update is lost between concurrent redemptions of one customer:
\* when a redeem that overlapped another successful redeem of the customer
\* commits, the customer's total points_redeemed grows by its amount, so
\* that after both it has grown by the sum of the two amounts.
C24_NoLostUpdate ==
  [][\A t \in Threads :
       (/\ pending[t] # Idle
        /\ pending'[t] = Idle
        /\ pending[t].op = "redeem_customer_points"
        /\ pending[t].work.resp.concurrent_with > 0) =>
         \A c \in Customers :
           c = pending[t].work.resp.customer =>
             CustomerRedeemed(c)' = CustomerRedeemed(c) + pending[t].work.resp.points
    ]_vars

\* C25: whenever get_customer_balance reports available_points = A > 0 for
\* a customer, a customer-level redeem of A points issued in that state
\* succeeds and one of A + 1 points fails.
C25_BalanceAgreesWithRedeem ==
  \A c \in Customers :
    LET A == get_customer_balance(c) IN
    A > 0 =>
      \A available_rewards \in OrderByEarnedDate(AvailableRewardIds(c)) :
        /\ redeem_customer_points_do(c, A, available_rewards).resp.ok
        /\ ~redeem_customer_points_do(c, A + 1, available_rewards).resp.ok

\* C26: two successive partial refunds of one payment, of amounts a1 then
\* a2 with a1 + a2 within the payment's amount, leave a lot of the payment
\* that the customer never redeemed from with the points_redeemed that one
\* refund of a1 + a2 claws back, up to one point of rounding.
C26_PartialRefundsAccumulate ==
  [][(/\ last.op = "refund_payment" /\ last.ok
      /\ last'.op = "refund_payment" /\ last'.ok
      /\ last'.payment = last.payment
      /\ last.refund_amount + last'.refund_amount <= payments[last.payment].amount) =>
       \A i \in RewardIds :
         (rewards[i].payment_id = last.payment /\ rewards[i].redeemed_date = None) =>
           LET single == Min(rewards[i].points_earned,
                             ((last.refund_amount + last'.refund_amount)
                                * rewards[i].points_earned)
                               \div payments[last.payment].amount)
           IN /\ rewards'[i].points_redeemed >= single - 1
              /\ rewards'[i].points_redeemed <= single + 1
    ]_vars

\* The points_to_restore of the first k cancellation records that reference
\* lot i, summed.
RECURSIVE RestoredTo(_, _)
RestoredTo(i, k) ==
  IF k = 0 THEN 0
  ELSE (IF cancellations[k].original_reward_id = i
        THEN cancellations[k].points_to_restore ELSE 0) + RestoredTo(i, k - 1)

\* C27: for every lot, the points_to_restore of the cancellation records
\* that reference it sum to at most the points redeemed from the lot.
C27_RestoreWithinRedeemed ==
  \A i \in RewardIds :
    RestoredTo(i, Len(cancellations)) <= rewards[i].points_redeemed

\* C28: a customer-level redeem for customer c, successful or not, leaves
\* every lot of every other customer unchanged, and a successful one
\* changes only lots of c that were candidates when it ran.
C28_RedeemFrame ==
  [][(last'.op = "redeem_customer_points") =>
       /\ DOMAIN rewards' = DOMAIN rewards
       /\ \A i \in RewardIds :
            rewards[i].customer_id # last'.customer => rewards'[i] = rewards[i]
       /\ last'.ok =>
            \A i \in RewardIds \ CandidateLots(last'.customer) :
              rewards'[i] = rewards[i]
    ]_vars

\* A redeem drew from its customer's lot while another customer holds an
\* untouched candidate lot.
C28_Witness ==
  /\ last.op = "redeem_customer_points" /\ last.ok
  /\ \E i \in RewardIds : /\ rewards[i].customer_id = last.customer
                          /\ rewards[i].points_redeemed = last.points
  /\ \E i \in RewardIds : /\ rewards[i].customer_id # last.customer
                          /\ rewards[i].status = "EARNED"
                          /\ rewards[i].expiry_date > now
                          /\ rewards[i].points_redeemed = 0

\* C29: a refund of payment p changes only lots of p that are EARNED: lots
\* of other payments, manual grants and lots of p that are REDEEMED or
\* EXPIRED stay as they are; a refund of a payment that is REFUNDED or not
\* COMPLETED is rejected, and a rejected refund changes no lot.
C29_RefundFrame ==
  [][(last'.op = "refund_payment") =>
       /\ DOMAIN rewards' = DOMAIN rewards
       /\ IF last'.ok
          THEN /\ payments[last'.payment].status = "COMPLETED"
               /\ \A i \in RewardIds :
                    (rewards[i].payment_id # last'.payment
                       \/ rewards[i].status # "EARNED")
                      => rewards'[i] = rewards[i]
          ELSE rewards' = rewards
    ]_vars

\* A refund of a payment already refunded in full was rejected; the lot the
\* full refund closed is REDEEMED.
C29_Witness ==
  /\ last.op = "refund_payment"
  /\ last.err = "Payment already refunded"
  /\ \E i \in RewardIds :
       /\ rewards[i].payment_id # NoPayment
       /\ payments[rewards[i].payment_id].status = "REFUNDED"
       /\ rewards[i].status = "REDEEMED"

\* C30: a single-lot redemption on an EARNED lot whose expiry_date has
\* passed is rejected with the expiry error; its only effect is that lot's
\* status becoming EXPIRED, points_redeemed included; and afterwards neither
\* redemption path can draw from the lot.
C30_RedeemExpiredLot ==
  [][(/\ last'.op = "redeem_reward"
      /\ "lot" \in DOMAIN last'
      /\ rewards[last'.lot].status = "EARNED"
      /\ rewards[last'.lot].expiry_date # None
      /\ rewards[last'.lot].expiry_date < now) =>
       /\ ~last'.ok
       /\ last'.err = "Reward has expired"
       /\ rewards' = [rewards EXCEPT ![last'.lot].status = "EXPIRED"]
       /\ payments' = payments
       /\ cancellations' = cancellations
       /\ \A i \in 1..MaxLots :
            i = last'.lot =>
              /\ \A pts \in RedeemInputs \cup {NoPoints} :
                   (~redeem_reward_do(i, pts).resp.ok)'
              /\ \A c \in Customers : (i \notin AvailableRewardIds(c))'
    ]_vars

\* A lot with 1 point redeemed was found past its expiry_date by a
\* redemption and is EXPIRED, still with 1 point redeemed.
C30_Witness ==
  /\ last.op = "redeem_reward"
  /\ last.err = "Reward has expired"
  /\ rewards[last.lot].status = "EXPIRED"
  /\ rewards[last.lot].points_redeemed = 1
  /\ rewards[last.lot].expiry_date < now
====
